---- MODULE Spec2Model ----
(***************************************************************************)
(* Model of the 2-3 tree inverted index of 371Project/tree23.py.           *)
(*                                                                         *)
(* A Python str is a sequence of code points (ASCII numbers), compared as  *)
(* Python compares strings.  A doc_id "Doc<n>" is the number n (1..9), so  *)
(* that numeric order is the string order of the ids.  A Node23 object is  *)
(* a record of its three lists; the code never lets two live nodes share a *)
(* child or a posting list, so in-place mutation is modelled by rebuilding *)
(* the path from the root.                                                 *)
(***************************************************************************)
EXTENDS Integers, Sequences, FiniteSets, TLC

VARIABLES root, inserted, last, nops, added

vars == <<root, inserted, last, nops, added>>

(* ------------------------------ bounds --------------------------------- *)

MaxOps == 7

NumDocs == 2

MaxAdds == 3

DocIds == 1..NumDocs

\* "a", "ab", "b", "ba"
Vocabulary == {<<97>>, <<97, 98>>, <<98>>, <<98, 97>>}

\* the terms inserted in alphabetical order:
\* "a", "ab", "b", "ba", "c", "ca", "d", "da"
Alphabetical ==
    {<<97>>, <<97, 98>>, <<98>>, <<98, 97>>, <<99>>, <<99, 97>>, <<100>>, <<100, 97>>}

\* patterns that do not end in '*': "", "a", "ab", "b", "ba", "*a", "a*b"
NoStarPatterns ==
    {<<>>, <<97>>, <<97, 98>>, <<98>>, <<98, 97>>, <<42, 97>>, <<97, 42, 98>>}

\* the prefixes queried: "", "a", "b", "ab"
Prefixes == {<<>>, <<97>>, <<98>>, <<97, 98>>}

(* --------------------------- Python built-ins -------------------------- *)

Range(s) == {s[i] : i \in 1..Len(s)}

\* str.__lt__ : lexicographic order on code points
StrLess(a, b) ==
    \E i \in 1..Len(b) :
        /\ i <= Len(a) + 1
        /\ \A j \in 1..(i - 1) : a[j] = b[j]
        /\ IF i = Len(a) + 1 THEN TRUE ELSE a[i] < b[i]

\* list.__lt__ on lists of doc_ids
ListLess(p, q) ==
    \E i \in 1..Len(q) :
        /\ i <= Len(p) + 1
        /\ \A j \in 1..(i - 1) : p[j] = q[j]
        /\ IF i = Len(p) + 1 THEN TRUE ELSE p[i] < q[i]

\* tuple.__lt__ on (key, posting_list) pairs
PairLess(x, y) ==
    \/ StrLess(x[1], y[1])
    \/ (x[1] = y[1] /\ ListLess(x[2], y[2]))

\* list.insert(i, x) with a 0-based index i
ListInsert(s, i, x) == SubSeq(s, 1, i) \o <<x>> \o SubSeq(s, i + 1, Len(s))

\* s[i] = x with a 0-based index i
ListSet(s, i, x) == [s EXCEPT ![i + 1] = x]

\* str.startswith
startswith(key, prefix) ==
    /\ Len(prefix) <= Len(key)
    /\ SubSeq(key, 1, Len(prefix)) = prefix

RECURSIVE sorted(_)
\* sorted() of a list of (key, posting_list) pairs: stable, by PairLess
sorted(s) ==
    IF s = <<>> THEN <<>>
    ELSE LET rest == sorted(SubSeq(s, 1, Len(s) - 1))
             x    == s[Len(s)]
             \* x goes after every element that is not greater than it
             n    == Cardinality({i \in 1..Len(rest) : ~PairLess(x, rest[i])})
         IN  ListInsert(rest, n, x)

(* ------------------------------- Node23 -------------------------------- *)

Node23 == [keys |-> <<>>, posting_lists |-> <<>>, children |-> <<>>]

is_leaf(node) == Len(node.children) = 0

\* a node that counts as full one key too late
is_full_late(node) == Len(node.keys) = 3

is_full(node) == Len(node.keys) = 2

insert_in_node(node, key, posting_list) ==
    LET \* the while loop stops at the first key that is not below `key`
        stops == {j \in 0..(Len(node.keys) - 1) : ~StrLess(node.keys[j + 1], key)}
        i     == IF stops = {} THEN Len(node.keys)
                 ELSE CHOOSE j \in stops : \A k \in stops : j <= k
    IN  [node EXCEPT !.keys = ListInsert(node.keys, i, key),
                     !.posting_lists = ListInsert(node.posting_lists, i, posting_list)]

(* ------------------------ tokenizer / normalizer ----------------------- *)

stop_words ==
    {<<97>>, <<97, 110>>, <<116, 104, 101>>, <<105, 110>>, <<105, 115>>,
     <<105, 116>>, <<116, 104, 97, 116>>, <<116, 104, 101, 121>>,
     <<99, 97, 110>>, <<98, 101>>, <<119, 105, 108, 108>>, <<98, 117, 116>>,
     <<115, 117, 99, 104>>, <<97, 108, 115, 111>>, <<104, 97, 118, 101>>,
     <<105, 102>>, <<97, 116>>, <<116, 111>>, <<97, 115>>}

\* str.lower() on ASCII text
lower(text) ==
    [i \in 1..Len(text) |->
        IF text[i] \in 65..90 THEN text[i] + 32 ELSE text[i]]

\* [a-z]
IsLetter(c) == c \in 97..122

\* \w on ASCII: the characters between which \b finds no boundary
IsWordChar(c) == c \in (48..57) \cup (65..90) \cup (97..122) \cup {95}

RECURSIVE WordRuns(_, _, _)
\* the maximal runs of word characters of text[i..], `cur` being the run open at i
WordRuns(text, i, cur) ==
    LET closed == IF cur = <<>> THEN <<>> ELSE <<cur>>
    IN  IF i > Len(text) THEN closed
        ELSE IF IsWordChar(text[i]) THEN WordRuns(text, i + 1, Append(cur, text[i]))
        ELSE closed \o WordRuns(text, i + 1, <<>>)

AllLetters(w) == \A i \in 1..Len(w) : IsLetter(w[i])

\* re.findall(r'\b[a-z]+\b', text.lower()): a run of letters matches only when
\* both its ends are word boundaries, i.e. when it is a whole run of word
\* characters
tokenize(text) == SelectSeq(WordRuns(lower(text), 1, <<>>), AllLetters)

NotStopWord(token) == token \notin stop_words

normalize(tokens) == SelectSeq(tokens, NotStopWord)

(* ------------------------- Tree23InvertedIndex ------------------------- *)

\* index (1-based) of the first key equal to term, 0 when there is none
FirstMatch(node, term) ==
    LET hits == {i \in 1..Len(node.keys) : node.keys[i] = term}
    IN  IF hits = {} THEN 0 ELSE CHOOSE i \in hits : \A k \in hits : i <= k

\* the 0-based child index chosen by the comparisons of search/update/insert
child_idx(node, term) ==
    IF StrLess(term, node.keys[1]) THEN 0
    ELSE IF Len(node.keys) = 1 \/ StrLess(term, node.keys[2]) THEN 1
    ELSE 2

RECURSIVE _search_recursive(_, _)
_search_recursive(node, term) ==
    IF FirstMatch(node, term) # 0 THEN node.posting_lists[FirstMatch(node, term)]
    ELSE IF is_leaf(node) THEN <<>>
    ELSE _search_recursive(node.children[child_idx(node, term) + 1], term)

search(tree, term) == _search_recursive(tree, term)

\* a posting list that is overwritten instead of extended
append_doc_overwrite(posting_list, doc_id) == <<doc_id>>

\* a posting list that is extended without the membership test
append_doc_always(posting_list, doc_id) == Append(posting_list, doc_id)

\* the posting list after `if doc_id not in pl: pl.append(doc_id)`
append_doc(posting_list, doc_id) ==
    IF doc_id \notin Range(posting_list) THEN Append(posting_list, doc_id)
    ELSE posting_list

RECURSIVE _update_posting_list(_, _, _)
\* the node after the in-place update
_update_posting_list(node, term, doc_id) ==
    LET i == FirstMatch(node, term)
    IN  IF i # 0
        THEN [node EXCEPT !.posting_lists[i] = append_doc(@, doc_id)]
        ELSE IF ~is_leaf(node)
        THEN LET c == child_idx(node, term) + 1
             IN  [node EXCEPT !.children[c] = _update_posting_list(@, term, doc_id)]
        ELSE node

\* the left node takes every child but the last
left_children_all_but_last(temp_children) ==
    SubSeq(temp_children, 1, Len(temp_children) - 1)

\* temp_children[:2]
left_children(temp_children) == SubSeq(temp_children, 1, 2)

\* the right node is left without children
right_children_forgotten(temp_children) == <<>>

\* temp_children[2:]
right_children(temp_children) == SubSeq(temp_children, 3, Len(temp_children))

\* a split result (left, middle key, right); `None` is [split |-> FALSE]
_split_node(node, new_key, new_posting, split_result) ==
    LET temp_keys0    == node.keys \o <<new_key>>
        temp_postings == node.posting_lists \o <<new_posting>>
        \* the for loop over temp_keys[:-1] with its break
        hits == {i \in 0..(Len(temp_keys0) - 2) :
                    StrLess(new_key, temp_keys0[i + 1]) \/ i = Len(temp_keys0) - 2}
        i0   == CHOOSE i \in hits : \A k \in hits : i <= k
        idx  == IF StrLess(new_key, temp_keys0[i0 + 1]) THEN i0 ELSE i0 + 1
        temp_children ==
            IF split_result.split
            THEN ListInsert(ListSet(node.children, idx, split_result.left),
                            idx + 1, split_result.right)
            ELSE node.children
        sorted_pairs == sorted([j \in 1..Len(temp_keys0) |->
                                    <<temp_keys0[j], temp_postings[j]>>])
        left  == [keys |-> <<sorted_pairs[1][1]>>,
                  posting_lists |-> <<sorted_pairs[1][2]>>,
                  children |-> IF temp_children # <<>>
                               THEN left_children(temp_children) ELSE <<>>]
        right == [keys |-> <<sorted_pairs[3][1]>>,
                  posting_lists |-> <<sorted_pairs[3][2]>>,
                  children |-> IF temp_children # <<>>
                               THEN right_children(temp_children) ELSE <<>>]
    IN  [split |-> TRUE, left |-> left, key |-> sorted_pairs[2][1], right |-> right]

None == [split |-> FALSE]

RECURSIVE _insert_recursive(_, _, _)
\* [split |-> FALSE, node |-> the node after the in-place insertion], or the
\* split result returned to the caller
_insert_recursive(node, term, posting_list) ==
    IF is_leaf(node)
    THEN IF ~is_full(node)
         THEN [split |-> FALSE, node |-> insert_in_node(node, term, posting_list)]
         ELSE _split_node(node, term, posting_list, None)
    ELSE LET c      == child_idx(node, term)
             result == _insert_recursive(node.children[c + 1], term, posting_list)
         IN  IF ~result.split
             THEN [split |-> FALSE,
                   node  |-> [node EXCEPT !.children[c + 1] = result.node]]
             ELSE IF ~is_full(node)
             THEN LET n1 == insert_in_node(node, result.key, <<>>)
                      ch == ListInsert(ListSet(node.children, c, result.left),
                                       c + 1, result.right)
                  IN  [split |-> FALSE, node |-> [n1 EXCEPT !.children = ch]]
             ELSE _split_node(node, result.key, <<>>, result)

\* insert that never takes the update branch
insert_always_new(tree, term, doc_id) ==
    LET result == _insert_recursive(tree, term, <<doc_id>>)
    IN  IF result.split
        THEN [keys |-> <<result.key>>,
              posting_lists |-> << <<>> >>,
              children |-> <<result.left, result.right>>]
        ELSE result.node

\* insert whose new root keeps the doc_id with the promoted key
insert_root_holds_doc(tree, term, doc_id) ==
    LET existing == search(tree, term)
    IN  IF existing # <<>>
        THEN _update_posting_list(tree, term, doc_id)
        ELSE LET result == _insert_recursive(tree, term, <<doc_id>>)
             IN  IF result.split
                 THEN [keys |-> <<result.key>>,
                       posting_lists |-> << <<doc_id>> >>,
                       children |-> <<result.left, result.right>>]
                 ELSE result.node

\* insert that drops a split result coming back from the root
insert_drops_root_split(tree, term, doc_id) ==
    LET existing == search(tree, term)
    IN  IF existing # <<>>
        THEN _update_posting_list(tree, term, doc_id)
        ELSE LET result == _insert_recursive(tree, term, <<doc_id>>)
             IN  IF result.split THEN tree ELSE result.node

\* the root after insert(term, doc_id)
insert(tree, term, doc_id) ==
    LET existing == search(tree, term)
    IN  IF existing # <<>>
        THEN _update_posting_list(tree, term, doc_id)
        ELSE LET result == _insert_recursive(tree, term, <<doc_id>>)
             IN  IF result.split
                 THEN [keys |-> <<result.key>>,
                       posting_lists |-> << <<>> >>,
                       children |-> <<result.left, result.right>>]
                 ELSE result.node

\* `result is not None` in insert: the call takes the new-term branch and the
\* split result comes back from the root
root_split(tree, term, doc_id) ==
    /\ search(tree, term) = <<>>
    /\ _insert_recursive(tree, term, <<doc_id>>).split

RECURSIVE _collect_with_prefix_pruned(_, _)
\* a collection that descends only below a node with a matching key
_collect_with_prefix_pruned(node, prefix) ==
    LET RECURSIVE own(_)
        own(i) == IF i > Len(node.keys) THEN <<>>
                  ELSE (IF startswith(node.keys[i], prefix)
                        THEN << <<node.keys[i], node.posting_lists[i]>> >>
                        ELSE <<>>) \o own(i + 1)
        RECURSIVE below(_)
        below(i) == IF i > Len(node.children) THEN <<>>
                    ELSE _collect_with_prefix_pruned(node.children[i], prefix)
                            \o below(i + 1)
    IN  IF own(1) = <<>> THEN <<>> ELSE own(1) \o below(1)

RECURSIVE _collect_with_prefix(_, _)
\* the entries appended to `results`, in order
_collect_with_prefix(node, prefix) ==
    LET RECURSIVE own(_)
        own(i) == IF i > Len(node.keys) THEN <<>>
                  ELSE (IF startswith(node.keys[i], prefix)
                        THEN << <<node.keys[i], node.posting_lists[i]>> >>
                        ELSE <<>>) \o own(i + 1)
        RECURSIVE below(_)
        below(i) == IF i > Len(node.children) THEN <<>>
                    ELSE _collect_with_prefix(node.children[i], prefix) \o below(i + 1)
    IN  own(1) \o below(1)

\* '*'
Star == 42

wildcard_search(tree, pattern) ==
    IF pattern # <<>> /\ pattern[Len(pattern)] = Star
    THEN _collect_with_prefix(tree, SubSeq(pattern, 1, Len(pattern) - 1))
    ELSE <<>>

RECURSIVE _collect_all_terms(_)
_collect_all_terms(node) ==
    LET own == [i \in 1..Len(node.keys) |-> <<node.keys[i], node.posting_lists[i]>>]
        RECURSIVE below(_)
        below(i) == IF i > Len(node.children) THEN <<>>
                    ELSE _collect_all_terms(node.children[i]) \o below(i + 1)
    IN  own \o below(1)

RECURSIVE InsertAll(_, _, _)
\* the for loop of add_document: insert(term, doc_id) for each term in order
InsertAll(tree, terms, doc_id) ==
    IF terms = <<>> THEN tree
    ELSE InsertAll(insert(tree, Head(terms), doc_id), Tail(terms), doc_id)

\* the root after add_document(doc_id, text)
add_document(tree, doc_id, text) ==
    InsertAll(tree, normalize(tokenize(text)), doc_id)

(* -------------------------------- corpus ------------------------------- *)

\* "superconductors repel a magnet"
Text1 ==
    <<115, 117, 112, 101, 114, 99, 111, 110, 100, 117, 99, 116, 111, 114, 115,
      32, 114, 101, 112, 101, 108, 32, 97, 32, 109, 97, 103, 110, 101, 116>>

\* "a magnet repels a superconductor"
Text2 ==
    <<97, 32, 109, 97, 103, 110, 101, 116, 32, 114, 101, 112, 101, 108, 115,
      32, 97, 32, 115, 117, 112, 101, 114, 99, 111, 110, 100, 117, 99, 116,
      111, 114>>

\* "A Magnet, is x1 repel"
Text3 ==
    <<65, 32, 77, 97, 103, 110, 101, 116, 44, 32, 105, 115, 32, 120, 49, 32,
      114, 101, 112, 101, 108>>

Corpus == <<Text1, Text2, Text3>>

magnet == <<109, 97, 103, 110, 101, 116>>

repel == <<114, 101, 112, 101, 108>>

repels == <<114, 101, 112, 101, 108, 115>>

superconductor ==
    <<115, 117, 112, 101, 114, 99, 111, 110, 100, 117, 99, 116, 111, 114>>

superconductors ==
    <<115, 117, 112, 101, 114, 99, 111, 110, 100, 117, 99, 116, 111, 114, 115>>

\* "super"
super == <<115, 117, 112, 101, 114>>

(* ----------------------------- state machine --------------------------- *)

Init ==
    /\ root = Node23
    /\ inserted = {}
    /\ last = <<>>
    /\ nops = 0
    /\ added = <<>>

Insert(term, doc_id) ==
    /\ nops < MaxOps
    /\ added = <<>>
    /\ root' = insert(root, term, doc_id)
    /\ inserted' = inserted \cup {<<term, doc_id>>}
    /\ last' = <<term, doc_id>>
    /\ nops' = nops + 1
    /\ UNCHANGED added

Next == \E term \in Vocabulary, doc_id \in DocIds : Insert(term, doc_id)

Spec == Init /\ [][Next]_vars

\* add_document(doc_id, Corpus[k]) on an index built by add_document only
AddDocument(doc_id, k) ==
    LET terms == normalize(tokenize(Corpus[k]))
    IN  /\ Len(added) < MaxAdds
        /\ nops = 0
        /\ root' = add_document(root, doc_id, Corpus[k])
        /\ inserted' = inserted \cup {<<terms[i], doc_id>> : i \in 1..Len(terms)}
        /\ last' = IF terms = <<>> THEN last ELSE <<terms[Len(terms)], doc_id>>
        /\ added' = Append(added, <<doc_id, k>>)
        /\ UNCHANGED nops

NextCorpus == \E doc_id \in DocIds, k \in 1..Len(Corpus) : AddDocument(doc_id, k)

SpecCorpus == Init /\ [][NextCorpus]_vars

\* insert(term, doc_id) by a caller that feeds the terms in strictly increasing
\* alphabetical order
InsertAscending(term, doc_id) ==
    /\ nops < MaxOps
    /\ added = <<>>
    /\ IF last = <<>> THEN TRUE ELSE StrLess(last[1], term)
    /\ root' = insert(root, term, doc_id)
    /\ inserted' = inserted \cup {<<term, doc_id>>}
    /\ last' = <<term, doc_id>>
    /\ nops' = nops + 1
    /\ UNCHANGED added

NextAscending ==
    \E term \in Alphabetical, doc_id \in DocIds : InsertAscending(term, doc_id)

SpecAscending == Init /\ [][NextAscending]_vars

(* ------------------------- observing the tree -------------------------- *)

RECURSIVE Nodes(_)
\* every node of the subtree
Nodes(node) ==
    {node} \cup UNION {Nodes(node.children[i]) : i \in 1..Len(node.children)}

\* every key reachable in the subtree
KeysOf(node) == UNION {Range(n.keys) : n \in Nodes(node)}

RECURSIVE LeafDepths(_)
\* the depths, counted from `node`, at which the leaves of the subtree lie
LeafDepths(node) ==
    IF is_leaf(node) THEN {0}
    ELSE UNION {{d + 1 : d \in LeafDepths(node.children[i])} :
                    i \in 1..Len(node.children)}

Height(node) == CHOOSE h \in LeafDepths(node) : \A d \in LeafDepths(node) : d <= h

RECURSIVE NumNodes(_, _)
\* the number of nodes in the subtrees node.children[i..]
NumNodes(node, i) ==
    IF i > Len(node.children) THEN 0
    ELSE 1 + NumNodes(node.children[i], 1) + NumNodes(node, i + 1)

\* the number of nodes of the tree
TreeSize(tree) == 1 + NumNodes(tree, 1)

RECURSIVE KeyShape(_)
\* the tree without its posting lists: the keys of every node, in place
KeyShape(node) ==
    [keys |-> node.keys,
     children |-> [i \in 1..Len(node.children) |-> KeyShape(node.children[i])]]

\* the entries of the full traversal whose term is not t
OtherEntries(tree, t) ==
    LET NotT(e) == e[1] # t
    IN  SelectSeq(_collect_all_terms(tree), NotT)

InternalKeys(node) == UNION {Range(n.keys) : n \in {m \in Nodes(node) : ~is_leaf(m)}}

\* the doc_ids that were inserted together with term t
DocsOf(t) == {d \in DocIds : <<t, d>> \in inserted}

TermsInserted == {p[1] : p \in inserted}

\* the doc_ids of a list of (term, posting list) entries
DocsIn(entries) == UNION {Range(entries[i][2]) : i \in 1..Len(entries)}

(* -------------------------------- claims ------------------------------- *)

\* the ordering condition of one node
Ordered(n) ==
    /\ \A i \in 1..(Len(n.keys) - 1) : StrLess(n.keys[i], n.keys[i + 1])
    /\ \A i \in 1..Len(n.children) :
         \A k \in KeysOf(n.children[i]) :
            /\ (i <= Len(n.keys) => StrLess(k, n.keys[i]))
            /\ (i >= 2 /\ i - 1 <= Len(n.keys) => StrLess(n.keys[i - 1], k))

\* C1: after any sequence of insert calls, in every node the keys are strictly
\* increasing and every key of child i lies strictly between the node's keys
\* i-1 and i.
C1_SubtreeOrdering == \A n \in Nodes(root) : Ordered(n)

\* C2: after every completed insert call all leaves are at the same depth.
C2_Balanced == Cardinality(LeafDepths(root)) = 1

\* a cascaded split has replaced the root a second time
C2_Witness == nops > 0 /\ Height(root) = 2

\* the size condition of one node
WellSized(n) ==
    /\ Len(n.keys) \in {1, 2}
    /\ Len(n.posting_lists) = Len(n.keys)
    /\ Len(n.children) \in {0, Len(n.keys) + 1}

\* C3: after one or more insert calls every node holds 1 or 2 keys, as many
\* posting lists as keys, and 0 or keys+1 children.
C3_NodeSizes == nops >= 1 => \A n \in Nodes(root) : WellSized(n)

\* two leaf splits have made the root a 3-node over a full leaf and a 2-node
C3_Witness ==
    /\ nops >= 1
    /\ Len(root.keys) = 2 /\ Len(root.children) = 3
    /\ \E i, j \in 1..3 : Len(root.children[i].keys) = 2
                          /\ Len(root.children[j].keys) = 1

\* C4: search(term) returns exactly the doc_ids inserted together with term
\* (and so an empty result only for a term never inserted).
C4_SearchExact == \A t \in Vocabulary : Range(search(root, t)) = DocsOf(t)

\* C5: no insert call makes search(t) lose a doc_id, for any term t.
C5_Monotonic ==
    [][\A t \in Vocabulary : Range(search(root, t)) \subseteq Range(search(root', t))]_vars

\* C6: insert(term, doc_id) called again right after insert(term, doc_id)
\* leaves search(term) and the full traversal as they were.
C6_Idempotent ==
    [][(nops' = nops + 1 /\ last' = last)
          => /\ search(root', last[1]) = search(root, last[1])
             /\ _collect_all_terms(root') = _collect_all_terms(root)]_vars

\* C7: the full traversal lists exactly the terms inserted, and every term that
\* is not a key of an internal node is listed once, with exactly the doc_ids
\* inserted with it.
C7_RoundTrip ==
    LET all == _collect_all_terms(root)
    IN  /\ {all[i][1] : i \in 1..Len(all)} = TermsInserted
        /\ \A t \in TermsInserted \ InternalKeys(root) :
              \E i \in 1..Len(all) :
                 /\ all[i][1] = t
                 /\ Range(all[i][2]) = DocsOf(t)
                 /\ Len(all[i][2]) = Cardinality(DocsOf(t))
                 /\ \A j \in 1..Len(all) : all[j][1] = t => j = i

\* a leaf-only term carries several doc_ids below a root that was split
C7_Witness ==
    /\ ~is_leaf(root)
    /\ \E t \in TermsInserted \ InternalKeys(root) : Cardinality(DocsOf(t)) = NumDocs
    /\ \E t \in InternalKeys(root) : DocsOf(t) # {}

\* the two documents of the scenario, added in either order
TwoDocCorpus ==
    added \in {<< <<1, 1>>, <<2, 2>> >>, << <<2, 2>>, <<1, 1>> >>}

\* C8: for Doc1 "superconductors repel a magnet" and Doc2 "a magnet repels a
\* superconductor", added in either order, search("magnet") is {Doc1, Doc2}
\* and search("superconductors") is {Doc1}.
C8_Scenario ==
    TwoDocCorpus =>
        /\ Range(search(root, magnet)) = {1, 2}
        /\ Len(search(root, magnet)) = 2
        /\ search(root, superconductors) = <<1>>

C8_Witness == TwoDocCorpus /\ search(root, magnet) = <<2, 1>>

\* C9: for the same corpus, added in either order, the prefix query super*
\* returns superconductors with {Doc1} and superconductor with {Doc2}.
C9_PrefixScenario ==
    TwoDocCorpus =>
        LET res == wildcard_search(root, super \o <<Star>>)
        IN  /\ \E i \in 1..Len(res) : res[i] = <<superconductors, <<1>> >>
            /\ \E i \in 1..Len(res) : res[i] = <<superconductor, <<2>> >>

\* C10: the posting lists returned by wildcard_search(p*) together hold exactly
\* the doc_ids inserted with some term that starts with p.
C10_PrefixCovers ==
    \A p \in Prefixes :
        DocsIn(wildcard_search(root, p \o <<Star>>))
            = {d \in DocIds : \E t \in Vocabulary : startswith(t, p) /\ <<t, d>> \in inserted}

\* C11: when distinct terms are inserted in strictly increasing order into a
\* fresh tree, the first two inserts split nothing, the third splits the root
\* leaf and creates a new root, and from then on all leaves are at one depth.
C11_AscendingInserts ==
    [][nops' = nops + 1 =>
         /\ (nops' <= 2 => /\ TreeSize(root') = 1
                           /\ ~root_split(root, last'[1], last'[2]))
         /\ (nops' = 3 => /\ root_split(root, last'[1], last'[2])
                          /\ TreeSize(root') = 3
                          /\ Len(root'.keys) = 1
                          /\ Len(root'.children) = 2)
         /\ (nops' >= 3 => Cardinality(LeafDepths(root')) = 1)]_vars

\* seven increasing inserts: the last one cascades to a second new root
C11_Witness == nops = 7 /\ Cardinality(TermsInserted) = 7 /\ Height(root) = 2

\* C12: insert(term, doc_id) on a term that is already a key of some node only
\* updates that term's posting list: the keys, the nodes, the root and the
\* shape stay as they were, nothing is split, and no other posting list
\* changes.
C12_ExistingTermOnlyUpdates ==
    [][(nops' = nops + 1 /\ last'[1] \in KeysOf(root)) =>
         /\ KeyShape(root') = KeyShape(root)
         /\ TreeSize(root') = TreeSize(root)
         /\ ~root_split(root, last'[1], last'[2])
         /\ OtherEntries(root', last'[1]) = OtherEntries(root, last'[1])]_vars

\* C13: an insert call leaves the height as it was or raises it by one; it
\* raises it exactly when the split result comes back from the root, and then
\* the new root has one key and two children.
C13_HeightGrowsAtRootSplit ==
    [][nops' = nops + 1 =>
         IF root_split(root, last'[1], last'[2])
         THEN /\ Height(root') = Height(root) + 1
              /\ Len(root'.keys) = 1
              /\ Len(root'.children) = 2
              /\ root' \notin Nodes(root)
         ELSE Height(root') = Height(root)]_vars

\* the seventh insert has just split the root of a height-1 tree
C13_Witness == nops = 7 /\ Height(root) = 2 /\ Len(root.keys) = 1

\* C14: every posting list of an internal node is empty and every posting list
\* of a leaf is non-empty (so no doc_id is ever appended to a posting list of
\* an internal node).
C14_PostingsOnlyInLeaves ==
    \A n \in Nodes(root) :
        \A i \in 1..Len(n.posting_lists) :
            IF is_leaf(n) THEN n.posting_lists[i] # <<>>
            ELSE n.posting_lists[i] = <<>>

\* a 3-node root with two routing keys above a leaf entry updated with a
\* second doc_id
C14_Witness ==
    /\ Len(root.keys) = 2 /\ Len(root.children) = 3
    /\ \E n \in Nodes(root) :
          is_leaf(n) /\ \E i \in 1..Len(n.posting_lists) : Len(n.posting_lists[i]) = 2

\* C15: wildcard_search(p*) is the full pre-order traversal restricted to the
\* entries whose key starts with p; with the empty prefix it is the full
\* traversal; a pattern that does not end in '*' gives the empty list.
C15_PrefixIsFilteredTraversal ==
    /\ \A p \in Prefixes :
          LET Starts(e) == startswith(e[1], p)
          IN  wildcard_search(root, p \o <<Star>>)
                 = SelectSeq(_collect_all_terms(root), Starts)
    /\ wildcard_search(root, <<Star>>) = _collect_all_terms(root)
    /\ \A pattern \in NoStarPatterns : wildcard_search(root, pattern) = <<>>

\* below a root none of whose keys starts with "b" the query b* still finds an
\* entry, and it is not the whole traversal
C15_Witness ==
    /\ ~is_leaf(root)
    /\ \A i \in 1..Len(root.keys) : ~startswith(root.keys[i], <<98>>)
    /\ wildcard_search(root, <<98, 42>>) # <<>>
    /\ wildcard_search(root, <<98, 42>>) # _collect_all_terms(root)

\* C16: no posting list of any node holds the same doc_id twice.
C16_NoDuplicateDocs ==
    \A n \in Nodes(root) :
        \A i \in 1..Len(n.posting_lists) :
            Len(n.posting_lists[i]) = Cardinality(Range(n.posting_lists[i]))

\* some (term, doc_id) pair was inserted again while every term was still in
\* the root leaf, and a posting list holds two doc_ids
C16_Witness ==
    /\ nops > Cardinality(inserted)
    /\ is_leaf(root)
    /\ \E i \in 1..Len(root.posting_lists) : Len(root.posting_lists[i]) = 2

\* C17: each term is a key at most once in the whole tree, so the full
\* traversal never lists a term twice.
C17_KeysUnique ==
    LET all == _collect_all_terms(root)
    IN  \A i, j \in 1..Len(all) : all[i][1] = all[j][1] => i = j

\* the terms of the corpus texts
CorpusTerms == {magnet, repel, repels, superconductor, superconductors}

\* the orders in which n calls can be made
Orders(n) == {f \in [1..n -> 1..n] : \A i, j \in 1..n : f[i] = f[j] => i = j}

RECURSIVE Build(_, _)
\* the index after the add_document calls `calls`, made in order on `tree`
Build(calls, tree) ==
    IF calls = <<>> THEN tree
    ELSE Build(Tail(calls), add_document(tree, Head(calls)[1], Corpus[Head(calls)[2]]))

\* C18: the same (term, doc_id) pairs inserted in another order give the same
\* answers: whatever the order of the add_document calls that built the index,
\* search(t) returns the same set of doc_ids for every term t.
C18_OrderIndependent ==
    \A f \in Orders(Len(added)) :
        LET other == Build([i \in 1..Len(added) |-> added[f[i]]], Node23)
        IN  \A t \in CorpusTerms : Range(search(other, t)) = Range(search(root, t))

====
